---- MODULE Spec2Model ----
(***************************************************************************)
(* sfmt::Object (src/include/sfmt.hpp): a tree of three node kinds         *)
(* (VALUE, LIST, TABLE) with factories, introspection helpers and the two  *)
(* serializers fmt() and fmt_pretty().                                     *)
(*                                                                         *)
(* A std::string is a sequence of bytes (character codes), so that the     *)
(* ordering of std::map keys and the characters of the output are the      *)
(* ones the program computes.  A std::vector<Object> is a sequence of      *)
(* Objects.  A std::map<std::string, Object> is the sequence of its        *)
(* (key, value) pairs in iteration order, i.e. strictly ascending keys.    *)
(*                                                                         *)
(* The module holds five specifications, each leaving the variables of the *)
(* others at their initial value:                                          *)
(*   Spec      a client building a tree (obj) and calling its members;     *)
(*   SpecWalk  one call of fmt() / fmt_pretty(), with the call stack of    *)
(*             fmt_impl (walk);                                            *)
(*   SpecPair  two trees and their compact encodings (pair);               *)
(*   SpecApp   the program of src/apps/triangle/main.cpp (app);            *)
(*   SpecTid   threads calling type_id_uint8<T>() of                       *)
(*             src/include/typeindex.hpp (tid).                            *)
(***************************************************************************)
EXTENDS Integers, Sequences, FiniteSets, TLC

VARIABLES obj, arg, op, res, walk, pair, app, tid

vars == <<obj, arg, op, res, walk, pair, app, tid>>

----------------------------------------------------------------------------
(* Bounds of the model. *)

\* longest vector handed to Object::list
MaxItems == 2
\* deepest tree built
MaxDepth == 2
\* largest tree built, in nodes
MaxNodes == 5

----------------------------------------------------------------------------
(* Characters and string literals of the source. *)

\* character codes of the literals used by fmt_impl
Chr == [dquote |-> 34, lbracket |-> 91, rbracket |-> 93, lbrace |-> 123,
        rbrace |-> 125, equals |-> 61, newline |-> 10, space |-> 32,
        backslash |-> 92, comma |-> 44, tab |-> 9, u |-> 117]

\* "\""
QUOTE == <<Chr.dquote>>

\* scalar texts and keys of apps/example/main.cpp
Str_key1 == <<107, 101, 121, 49>>
Str_key2 == <<107, 101, 121, 50>>
Str_value1 == <<118, 97, 108, 117, 101, 49>>
Str_value2 == <<118, 97, 108, 117, 101, 50>>
Str_value3 == <<118, 97, 108, 117, 101, 51>>
\* "k"
Str_k == <<107>>
\* "", a"b, a\b
Str_empty == <<>>
Str_aqb == <<97, Chr.dquote, 98>>
Str_abb == <<97, Chr.backslash, 98>>
\* a text of two lines: a, newline, b
Str_anb == <<97, Chr.newline, 98>>

\* the texts handed to Object::value
Texts ==
    {Str_empty, Str_aqb, Str_abb, Str_anb, Str_value2}

\* the keys handed to Object::table
Keys == {Str_key1, Str_key2}

----------------------------------------------------------------------------
(* std::string comparison, as std::less<std::string> of std::map uses it. *)

RECURSIVE StrLess(_, _)
StrLess(a, b) ==
    IF b = <<>> THEN FALSE
    ELSE IF a = <<>> THEN TRUE
    ELSE IF Head(a) # Head(b) THEN Head(a) < Head(b)
    ELSE StrLess(Tail(a), Tail(b))

----------------------------------------------------------------------------
(* The variant m_data and the factories. *)

\* Object o; (m_data default-initialised to std::string(""))
DefaultObject == [alt |-> "string", str |-> <<>>]

\* value() storing the text already quoted for output
value_Quoting(s) == [alt |-> "string", str |-> QUOTE \o s \o QUOTE]

\* Object::value(str): o.m_data = str
value(s) == [alt |-> "string", str |-> s]

\* Object::list(vec): o.m_data = vec
list(vec) == [alt |-> "vector", vec |-> vec]

MapHasKey(m, k) == \E i \in 1..Len(m) : m[i][1] = k

\* number of entries of m whose key is less than k
MapLowerBound(m, k) == Cardinality({i \in 1..Len(m) : StrLess(m[i][1], k)})

\* insert() keeping the pairs in insertion order
MapInsert_Unordered(m, kv) == IF MapHasKey(m, kv[1]) THEN m ELSE Append(m, kv)

\* std::map::insert(kv): no effect when the key is present, else the pair
\* is placed at its position in key order
MapInsert(m, kv) ==
    IF MapHasKey(m, kv[1]) THEN m
    ELSE LET n == MapLowerBound(m, kv[1])
         IN  SubSeq(m, 1, n) \o <<kv>> \o SubSeq(m, n + 1, Len(m))

\* std::map<std::string, Object>(il): the range constructor inserts the
\* pairs of il in order
RECURSIVE MapFromList(_, _, _)
MapFromList(il, i, m) ==
    IF i > Len(il) THEN m
    ELSE MapFromList(il, i + 1, MapInsert(m, il[i]))

\* Object::table(map): o.m_data = map
table(map) == [alt |-> "map", map |-> map]

\* Object::table(initializer_list): o.m_data = std::map(il)
table_il(il) == table(MapFromList(il, 1, <<>>))

----------------------------------------------------------------------------
(* Introspection helpers. *)

\* std::optional: std::nullopt, or a contained value
nullopt == [has |-> FALSE]
Some(v) == [has |-> TRUE, val |-> v]

\* Object::type(): std::visit on the active alternative
type(o) ==
    IF o.alt = "string" THEN "VALUE"
    ELSE IF o.alt = "vector" THEN "LIST"
    ELSE "TABLE"

\* Object::get_value(): std::get_if<std::string>
get_value(o) == IF o.alt = "string" THEN Some(o.str) ELSE nullopt

\* get_list() returning an empty vector for the other alternatives
get_list_Default(o) == IF o.alt = "vector" THEN Some(o.vec) ELSE Some(<<>>)

\* Object::get_list(): std::get_if<std::vector<Object>>
get_list(o) == IF o.alt = "vector" THEN Some(o.vec) ELSE nullopt

\* Object::get_table(): std::get_if<std::map<std::string, Object>>
get_table(o) == IF o.alt = "map" THEN Some(o.map) ELSE nullopt

----------------------------------------------------------------------------
(* Serialization. *)

\* indent_str() giving one space per level
indent_str_Single(level) == [i \in 1..level |-> Chr.space]

\* std::string(level * 2, ' ')
indent_str(level) == [i \in 1..(level * 2) |-> Chr.space]

\* val.find('\n') != std::string::npos
HasNewline(val) == \E i \in 1..Len(val) : val[i] = Chr.newline

\* the VALUE branch escaping double quotes and backslashes
RECURSIVE EscapeText(_)
EscapeText(str) ==
    IF str = <<>> THEN <<>>
    ELSE (IF Head(str) \in {Chr.dquote, Chr.backslash}
          THEN <<Chr.backslash, Head(str)>> ELSE <<Head(str)>>)
             \o EscapeText(Tail(str))

\* the VALUE branch returning the text without the quotes around it
fmt_value_Bare(str) == str

fmt_value_Escaping(str) == QUOTE \o EscapeText(str) \o QUOTE

\* VALUE branch: std::string("\"") + arg + "\""
fmt_value(str) == QUOTE \o str \o QUOTE

\* the LIST branch without its early return
ListIsEmpty_Never(vec) == FALSE

\* LIST branch: if (arg.empty()) return "[]"
ListIsEmpty(vec) == vec = <<>>

\* TABLE branch: if (arg.empty()) return "{}"
TableIsEmpty(map) == map = <<>>

\* the compact LIST loop putting a ',' after every element
ListCompactStep_Separator(out, elem) == out \o elem \o <<Chr.comma>>

\* body of the compact LIST loop: out += arg[i].fmt_impl(0, false)
ListCompactStep(out, elem) == out \o elem

\* body of the compact TABLE loop, val being kv.second.fmt_impl(0, false):
\* out += ""; out += "\"" + kv.first + "\""; out += val; out += "="
TableCompactStep(out, key, val) ==
    out \o <<>> \o (QUOTE \o key \o QUOTE) \o val \o <<Chr.equals>>

\* body of the pretty LIST loop, elem being arg[i].fmt_impl(indent + 1, true)
ListPrettyStep(out, elem, indent, last) ==
    LET out1 == out \o indent_str(indent + 1) \o elem
    IN  IF ~last THEN out1 \o <<Chr.newline>> ELSE out1

\* the pretty TABLE loop body writing every value after '=' on the same line
TablePrettyStep_Inline(out, key, val, indent, last) ==
    LET out1 == out \o indent_str(indent + 1) \o <<Chr.lbrace>>
                    \o (QUOTE \o key \o QUOTE \o <<Chr.rbrace>>)
                    \o <<Chr.equals>>
        out3 == out1 \o val \o <<Chr.rbrace>>
    IN  IF ~last THEN out3 \o <<Chr.newline>> ELSE out3

\* body of the pretty TABLE loop, val being it->second.fmt_impl(indent + 2, true)
TablePrettyStep(out, key, val, indent, last) ==
    LET out1 == out \o indent_str(indent + 1) \o <<Chr.lbrace>>
                    \o (QUOTE \o key \o QUOTE \o <<Chr.rbrace>>)
                    \o <<Chr.equals>>
        out2 == IF ~HasNewline(val) THEN out1 \o val
                ELSE out1 \o (<<Chr.newline>> \o indent_str(indent + 2) \o val)
                          \o (<<Chr.newline>> \o indent_str(indent + 1))
        out3 == out2 \o <<Chr.rbrace>>
    IN  IF ~last THEN out3 \o <<Chr.newline>> ELSE out3

RECURSIVE fmt_impl(_, _, _)
RECURSIVE ListCompactLoop(_, _, _)
RECURSIVE ListPrettyLoop(_, _, _, _)
RECURSIVE TableCompactLoop(_, _, _)
RECURSIVE TablePrettyLoop(_, _, _, _)

\* for (size_t i = 0; i < arg.size(); ++i) of the compact LIST branch
ListCompactLoop(vec, i, out) ==
    IF i > Len(vec) THEN out
    ELSE ListCompactLoop(vec, i + 1,
                         ListCompactStep(out, fmt_impl(vec[i], 0, FALSE)))

\* for (size_t i = 0; i < arg.size(); ++i) of the pretty LIST branch
ListPrettyLoop(vec, i, out, indent) ==
    IF i > Len(vec) THEN out
    ELSE ListPrettyLoop(vec, i + 1,
                        ListPrettyStep(out, fmt_impl(vec[i], indent + 1, TRUE),
                                       indent, i = Len(vec)),
                        indent)

\* for (const auto& kv : arg) of the compact TABLE branch
TableCompactLoop(map, i, out) ==
    IF i > Len(map) THEN out
    ELSE TableCompactLoop(map, i + 1,
                          TableCompactStep(out, map[i][1],
                                           fmt_impl(map[i][2], 0, FALSE)))

\* for (auto it = arg.begin(); it != arg.end(); ++it) of the pretty TABLE branch
TablePrettyLoop(map, i, out, indent) ==
    IF i > Len(map) THEN out
    ELSE TablePrettyLoop(map, i + 1,
                         TablePrettyStep(out, map[i][1],
                                         fmt_impl(map[i][2], indent + 2, TRUE),
                                         indent, i = Len(map)),
                         indent)

\* Object::fmt_impl(indent, pretty)
fmt_impl(o, indent, pretty) ==
    IF o.alt = "string" THEN fmt_value(o.str)
    ELSE IF o.alt = "vector" THEN
        IF ListIsEmpty(o.vec) THEN <<Chr.lbracket, Chr.rbracket>>
        ELSE IF ~pretty THEN
            ListCompactLoop(o.vec, 1, <<Chr.lbracket>>) \o <<Chr.rbracket>>
        ELSE
            ListPrettyLoop(o.vec, 1, <<Chr.lbracket, Chr.newline>>, indent)
                \o (<<Chr.newline>> \o indent_str(indent) \o <<Chr.rbracket>>)
    ELSE
        IF TableIsEmpty(o.map) THEN <<Chr.lbrace, Chr.rbrace>>
        ELSE IF ~pretty THEN
            TableCompactLoop(o.map, 1, <<Chr.lbrace>>) \o <<Chr.rbrace>>
        ELSE
            TablePrettyLoop(o.map, 1, <<Chr.lbrace, Chr.newline>>, indent)
                \o (<<Chr.newline>> \o indent_str(indent) \o <<Chr.rbrace>>)

\* Object::fmt()
fmt(o) == fmt_impl(o, 0, FALSE)

\* Object::fmt_pretty()
fmt_pretty(o) == fmt_impl(o, 0, TRUE)

----------------------------------------------------------------------------
(* The decoder the specification adds to the format (the source has none):  *)
(* recursive descent over the comma-separated grammar.  A result is the     *)
(* Node and the position after it, or an error and its position.            *)

Ok(node, pos) == [ok |-> TRUE, node |-> node, pos |-> pos]
Err(e, pos) == [ok |-> FALSE, err |-> e, pos |-> pos]

\* skip spaces, tabs and newlines
RECURSIVE SkipWs(_, _)
SkipWs(text, pos) ==
    IF pos <= Len(text) /\ text[pos] \in {Chr.space, Chr.tab, Chr.newline}
    THEN SkipWs(text, pos + 1)
    ELSE pos

\* the value of a hexadecimal digit, -1 for any other character
HexVal(c) ==
    IF c \in 48..57 THEN c - 48
    ELSE IF c \in 97..102 THEN c - 87
    ELSE IF c \in 65..70 THEN c - 55
    ELSE 0 - 1

\* the text of a scalar from pos, which follows the opening quote
RECURSIVE ScanString(_, _, _)
ScanString(text, pos, acc) ==
    IF pos > Len(text) THEN Err("UnterminatedStringError", pos)
    ELSE IF text[pos] = Chr.dquote THEN Ok(value(acc), pos + 1)
    ELSE IF text[pos] # Chr.backslash
         THEN ScanString(text, pos + 1, Append(acc, text[pos]))
    ELSE IF pos + 1 > Len(text) THEN Err("UnterminatedStringError", pos + 1)
    ELSE IF text[pos + 1] \in {Chr.dquote, Chr.backslash}
         THEN ScanString(text, pos + 2, Append(acc, text[pos + 1]))
    ELSE IF text[pos + 1] = Chr.u /\ pos + 5 <= Len(text)
            /\ \A i \in 2..5 : HexVal(text[pos + i]) >= 0
         THEN ScanString(text, pos + 6,
                         Append(acc, 4096 * HexVal(text[pos + 2])
                                       + 256 * HexVal(text[pos + 3])
                                       + 16 * HexVal(text[pos + 4])
                                       + HexVal(text[pos + 5])))
    ELSE Err("UnexpectedTokenError", pos + 1)

RECURSIVE ParseValue(_, _)
RECURSIVE ParseElements(_, _, _)
RECURSIVE ParseEntries(_, _, _)

\* the elements of a non-empty list from pos, acc being those parsed so far
ParseElements(text, pos, acc) ==
    LET elem == ParseValue(text, pos)
    IN  IF ~elem.ok THEN elem
        ELSE LET q == SkipWs(text, elem.pos)
                 vec == Append(acc, elem.node)
             IN  IF q > Len(text) THEN Err("UnexpectedTokenError", q)
                 ELSE IF text[q] = Chr.rbracket THEN Ok(list(vec), q + 1)
                 ELSE IF text[q] # Chr.comma THEN Err("UnexpectedTokenError", q)
                 ELSE LET r == SkipWs(text, q + 1)
                      IN  IF r <= Len(text) /\ text[r] = Chr.rbracket
                          THEN Err("TrailingSeparatorError", r)
                          ELSE ParseElements(text, r, vec)

\* the entries of a non-empty table from pos, acc being the map so far
ParseEntries(text, pos, acc) ==
    IF pos > Len(text) \/ text[pos] # Chr.dquote
    THEN Err("UnexpectedTokenError", pos)
    ELSE
    LET key == ScanString(text, pos + 1, <<>>)
    IN  IF ~key.ok THEN key
        ELSE
        LET e == SkipWs(text, key.pos)
        IN  IF e > Len(text) \/ text[e] # Chr.equals
            THEN Err("UnexpectedTokenError", e)
            ELSE
            LET val == ParseValue(text, e + 1)
            IN  IF ~val.ok THEN val
                ELSE IF MapHasKey(acc, key.node.str)
                     THEN Err("DuplicateKeyError", pos)
                ELSE
                LET q == SkipWs(text, val.pos)
                    map == MapInsert(acc, <<key.node.str, val.node>>)
                IN  IF q > Len(text) THEN Err("UnexpectedTokenError", q)
                    ELSE IF text[q] = Chr.rbrace THEN Ok(table(map), q + 1)
                    ELSE IF text[q] # Chr.comma
                         THEN Err("UnexpectedTokenError", q)
                    ELSE LET r == SkipWs(text, q + 1)
                         IN  IF r <= Len(text) /\ text[r] = Chr.rbrace
                             THEN Err("TrailingSeparatorError", r)
                             ELSE ParseEntries(text, r, map)

\* one value from pos: dispatch on the lookahead after the whitespace
ParseValue(text, pos) ==
    LET p == SkipWs(text, pos)
    IN  IF p > Len(text) THEN Err("UnexpectedTokenError", p)
        ELSE IF text[p] = Chr.dquote THEN ScanString(text, p + 1, <<>>)
        ELSE IF text[p] = Chr.lbracket THEN
            LET q == SkipWs(text, p + 1)
            IN  IF q <= Len(text) /\ text[q] = Chr.rbracket
                THEN Ok(list(<<>>), q + 1)
                ELSE ParseElements(text, q, <<>>)
        ELSE IF text[p] = Chr.lbrace THEN
            LET q == SkipWs(text, p + 1)
            IN  IF q <= Len(text) /\ text[q] = Chr.rbrace
                THEN Ok(table(<<>>), q + 1)
                ELSE ParseEntries(text, q, <<>>)
        ELSE Err("UnexpectedTokenError", p)

\* decode(text): one value, then nothing but whitespace
decode(text) ==
    LET r == ParseValue(text, 1)
    IN  IF ~r.ok THEN r
        ELSE LET q == SkipWs(text, r.pos)
             IN  IF q <= Len(text) THEN Err("TrailingDataError", q) ELSE r

----------------------------------------------------------------------------
(* The program: a client that builds a tree bottom-up with the factories,   *)
(* as apps/example/main.cpp does, and calls the const member functions on   *)
(* it.  obj is the Object built last, arg the argument of the factory that  *)
(* built it, op the member function called last and res what it returned.   *)

\* the children of a node, in iteration order
Kids(o) ==
    IF o.alt = "string" THEN <<>>
    ELSE IF o.alt = "vector" THEN o.vec
    ELSE [i \in 1..Len(o.map) |-> o.map[i][2]]

\* no node of the tree o is more than d containers deep
RECURSIVE DepthAtMost(_, _)
DepthAtMost(o, d) ==
    IF o.alt = "string" THEN TRUE
    ELSE IF d = 0 THEN FALSE
    ELSE \A i \in 1..Len(Kids(o)) : DepthAtMost(Kids(o)[i], d - 1)

RECURSIVE NodeCount(_)
RECURSIVE NodeCountFrom(_, _)
NodeCountFrom(objs, i) ==
    IF i > Len(objs) THEN 0 ELSE NodeCount(objs[i]) + NodeCountFrom(objs, i + 1)

NodeCount(o) == 1 + NodeCountFrom(Kids(o), 1)

\* the trees the model builds
Bounded(o) == DepthAtMost(o, MaxDepth) /\ NodeCount(o) <= MaxNodes

\* the Objects a client puts into a vector: the one built last, or a scalar
ListChildren == {obj, value(Str_value3)}

\* the Objects a client puts into an initializer list of pairs
TableChildren == {obj, value(Str_value1)}

SeqsUpTo(S, n) == UNION {[1..k -> S] : k \in 0..n}

\* the initializer lists handed to Object::table: up to as many pairs as
\* there are keys, in any order, a key possibly given twice
InitializerLists == SeqsUpTo(Keys \X TableChildren, Cardinality(Keys))

\* the steps that build an Object; a client builds its tree bottom-up and
\* then calls the const member functions on it
Factories == {"ctor", "value", "list", "table"}

\* the state of the other programs of the repository while this one runs
NotStarted == [pc |-> "not_started"]

Init ==
    /\ obj = DefaultObject
    /\ arg = <<>>
    /\ op = "ctor"
    /\ res = nullopt
    /\ walk = NotStarted
    /\ pair = NotStarted
    /\ app = NotStarted
    /\ tid = NotStarted

\* sfmt::Object::value(s)
Value(s) ==
    /\ op \in Factories
    /\ obj' = value(s)
    /\ arg' = s
    /\ op' = "value"
    /\ res' = nullopt
    /\ UNCHANGED <<walk, pair, app, tid>>

\* sfmt::Object::list(vec)
List(vec) ==
    /\ op \in Factories
    /\ LET o == list(vec) IN Bounded(o) /\ obj' = o
    /\ arg' = vec
    /\ op' = "list"
    /\ res' = nullopt
    /\ UNCHANGED <<walk, pair, app, tid>>

\* sfmt::Object::table({...})
Table(il) ==
    /\ op \in Factories
    /\ LET o == table_il(il) IN Bounded(o) /\ obj' = o
    /\ arg' = il
    /\ op' = "table"
    /\ res' = nullopt
    /\ UNCHANGED <<walk, pair, app, tid>>

\* a const member function f is called on obj
Call(name, result) ==
    /\ op' = name
    /\ res' = result
    /\ UNCHANGED <<obj, arg>>
    /\ UNCHANGED <<walk, pair, app, tid>>

\* the accessors returning a copy of the payload
Accessors == {"get_value", "get_list", "get_table"}

\* the client holds a container of its own that shares its content with
\* obj: the payload an accessor just returned, or the container it just
\* handed to a factory
ClientHoldsCopy ==
    IF op \in Accessors THEN res.has ELSE op \in {"value", "list", "table"}

\* the accessors returning a reference to m_data, so that a write to what
\* they returned is a write to the payload of the Object
AfterWriteToCopy_Aliased(o, v) ==
    IF o.alt = "string" THEN [o EXCEPT !.str = v]
    ELSE IF o.alt = "vector" THEN [o EXCEPT !.vec = v]
    ELSE [o EXCEPT !.map = v]

\* the Object o after the client has written v to its copy of the payload:
\* `return *p` copy-constructs the std::optional and `o.m_data = vec`
\* copy-assigns, so the write does not reach m_data
AfterWriteToCopy(o, v) == o

\* the client clears its container (clear() of std::string, std::vector and
\* std::map alike)
MutateCopy ==
    /\ ClientHoldsCopy
    /\ op' = "mutate"
    /\ res' = Some(<<>>)
    /\ obj' = AfterWriteToCopy(obj, <<>>)
    /\ UNCHANGED arg
    /\ UNCHANGED <<walk, pair, app, tid>>

Type == Call("type", type(obj))
GetValue == Call("get_value", get_value(obj))
GetList == Call("get_list", get_list(obj))
GetTable == Call("get_table", get_table(obj))
Fmt == Call("fmt", fmt(obj))
FmtPretty == Call("fmt_pretty", fmt_pretty(obj))

Next ==
    \/ \E s \in Texts : Value(s)
    \/ \E vec \in SeqsUpTo(ListChildren, MaxItems) : List(vec)
    \/ \E il \in InitializerLists : Table(il)
    \/ Type
    \/ GetValue
    \/ GetList
    \/ GetTable
    \/ Fmt
    \/ FmtPretty
    \/ MutateCopy

Spec == Init /\ [][Next]_vars

----------------------------------------------------------------------------
(* Vocabulary of the properties. *)

\* the concatenation of the strings of a sequence of strings
RECURSIVE Flatten(_)
Flatten(ss) == IF ss = <<>> THEN <<>> ELSE Head(ss) \o Flatten(Tail(ss))

\* the strings of ss with sep between each pair of consecutive ones
RECURSIVE JoinWith(_, _)
JoinWith(ss, sep) ==
    IF ss = <<>> THEN <<>>
    ELSE IF Len(ss) = 1 THEN ss[1]
    ELSE ss[1] \o sep \o JoinWith(Tail(ss), sep)

\* s between double quotes
Quoted(s) == <<Chr.dquote>> \o s \o <<Chr.dquote>>

\* s with a backslash put before every double quote and every backslash
RECURSIVE Escaped(_)
Escaped(s) ==
    IF s = <<>> THEN <<>>
    ELSE IF Head(s) \in {Chr.dquote, Chr.backslash}
         THEN <<Chr.backslash, Head(s)>> \o Escaped(Tail(s))
         ELSE <<Head(s)>> \o Escaped(Tail(s))

\* a comes before b in lexicographic order of the character codes
LexLess(a, b) ==
    \E i \in 1..(Len(b)) :
        /\ \A j \in 1..(i - 1) : j <= Len(a) /\ a[j] = b[j]
        /\ i - 1 <= Len(a)
        /\ (i = Len(a) + 1 \/ a[i] < b[i])

\* the keys of the set ks in ascending lexicographic order
RECURSIVE Ascending(_)
Ascending(ks) ==
    IF ks = {} THEN <<>>
    ELSE LET least == CHOOSE k \in ks : \A l \in ks \ {k} : LexLess(k, l)
         IN  <<least>> \o Ascending(ks \ {least})

KeysOf(il) == {il[i][1] : i \in 1..Len(il)}
HasDuplicateKey(il) == \E i, j \in 1..Len(il) : i < j /\ il[i][1] = il[j][1]

\* the value the first pair of il with key k carries
FirstOf(il, k) ==
    il[CHOOSE i \in 1..Len(il) :
           il[i][1] = k /\ \A j \in 1..(i - 1) : il[j][1] # k][2]

\* the rearrangements of the sequence il
Rearrangements(il) ==
    {[i \in 1..Len(il) |-> il[f[i]]] :
        f \in {g \in [1..Len(il) -> 1..Len(il)] :
                  \A i, j \in 1..Len(il) : g[i] = g[j] => i = j}}

\* how often the two characters c, d occur next to each other in text
CountPair(text, c, d) ==
    Cardinality({i \in 1..(Len(text) - 1) : text[i] = c /\ text[i + 1] = d})

\* the nodes of the tree o that are empty containers of alternative alt
RECURSIVE CountEmpty(_, _)
RECURSIVE CountEmptyFrom(_, _, _)
CountEmptyFrom(objs, i, alt) ==
    IF i > Len(objs) THEN 0
    ELSE CountEmpty(objs[i], alt) + CountEmptyFrom(objs, i + 1, alt)

CountEmpty(o, alt) ==
    IF o.alt = "string" THEN 0
    ELSE (IF o.alt = alt /\ Kids(o) = <<>> THEN 1 ELSE 0)
             + CountEmptyFrom(Kids(o), 1, alt)

\* the tree of apps/example/main.cpp
SampleTree ==
    table_il(<<<<Str_key1, value(Str_value1)>>,
               <<Str_key2, list(<<value(Str_value2), value(Str_value3)>>)>>>>)

\* {"key1"="value1","key2"=["value2","value3"]}
SampleText ==
    <<Chr.lbrace>> \o Quoted(Str_key1) \o <<Chr.equals>> \o Quoted(Str_value1)
        \o <<Chr.comma>> \o Quoted(Str_key2) \o <<Chr.equals, Chr.lbracket>>
        \o Quoted(Str_value2) \o <<Chr.comma>> \o Quoted(Str_value3)
        \o <<Chr.rbracket, Chr.rbrace>>

----------------------------------------------------------------------------
(* C1: fmt() of the table of apps/example/main.cpp, {key1 -> "value1",      *)
(* key2 -> ["value2", "value3"]}, returns the text                          *)
(* {"key1"="value1","key2"=["value2","value3"]}.                            *)
C1_SampleCompact ==
    (op = "fmt" /\ obj = SampleTree) => res = SampleText

(* C2: decoding fmt() of a tree, and decoding fmt_pretty() of it, gives a   *)
(* tree equal to it.                                                        *)
C2_RoundTrip ==
    (op \in {"fmt", "fmt_pretty"}) =>
        LET r == decode(res) IN r.ok /\ r.node = obj

C4_TableEntries ==
    (op = "fmt" /\ obj.alt = "map" /\ obj.map # <<>>) =>
        res = <<Chr.lbrace>>
                \o JoinWith([i \in 1..Len(obj.map) |->
                                Quoted(obj.map[i][1]) \o <<Chr.equals>>
                                    \o fmt(obj.map[i][2])],
                            <<Chr.comma>>)
                \o <<Chr.rbrace>>

(* C5: fmt() and fmt_pretty() of a table emit its entries in strictly       *)
(* ascending lexicographic key order whatever the order of the pairs handed *)
(* to Object::table, and tables built from the same pairs in any order      *)
(* serialize to the same text.                                              *)
C5_KeyOrder ==
    (op \in {"fmt", "fmt_pretty"} /\ obj.alt = "map") =>
        LET keys == Ascending(KeysOf(arg))
            n == Len(keys)
            entries ==
                IF op = "fmt"
                THEN [i \in 1..n |->
                         TableCompactStep(<<>>, keys[i],
                                          fmt_impl(FirstOf(arg, keys[i]), 0, FALSE))]
                ELSE [i \in 1..n |->
                         TablePrettyStep(<<>>, keys[i],
                                         fmt_impl(FirstOf(arg, keys[i]), 2, TRUE),
                                         0, i = n)]
            open == IF op = "fmt" THEN <<Chr.lbrace>>
                    ELSE <<Chr.lbrace, Chr.newline>>
            close == IF op = "fmt" THEN <<Chr.rbrace>>
                     ELSE <<Chr.newline, Chr.rbrace>>
        IN  /\ \A a, b \in Keys \cup {Str_k, Str_empty} :
                   StrLess(a, b) <=> LexLess(a, b)
            /\ \A i \in 1..(Len(obj.map) - 1) :
                   LexLess(obj.map[i][1], obj.map[i + 1][1])
            /\ n > 0 => res = open \o Flatten(entries) \o close
            /\ ~HasDuplicateKey(arg) =>
                   \A il \in Rearrangements(arg) :
                       fmt_impl(table_il(il), 0, op = "fmt_pretty") = res

C5_Witness ==
    /\ op = "fmt_pretty"
    /\ obj.alt = "map"
    /\ Len(arg) = 2
    /\ LexLess(arg[2][1], arg[1][1])
    /\ arg[1][2] # arg[2][2]

C7_EmptyContainers ==
    (op \in {"fmt", "fmt_pretty"}) =>
        /\ obj = list(<<>>) => res = <<Chr.lbracket, Chr.rbracket>>
        /\ obj = table(<<>>) => res = <<Chr.lbrace, Chr.rbrace>>
        /\ CountPair(res, Chr.lbracket, Chr.rbracket) = CountEmpty(obj, "vector")
        /\ CountPair(res, Chr.lbrace, Chr.rbrace) = CountEmpty(obj, "map")

C7_Witness ==
    /\ op = "fmt_pretty"
    /\ obj.alt = "map"
    /\ Len(obj.map) = 2
    /\ obj.map[1][2] = list(<<>>)
    /\ obj.map[2][2] = list(<<>>)

(* C8: Object::table of an initializer list in which a key occurs twice     *)
(* fails: it produces no table.                                             *)
C8_DuplicateKeyRejected ==
    (op = "table" /\ HasDuplicateKey(arg)) => obj.alt # "map"

(* C9: of get_value, get_list and get_table exactly the one matching type() *)
(* returns the payload; the other two return std::nullopt, which is no      *)
(* payload, not even an empty one.                                          *)
C9_Accessors ==
    LET kind == IF obj.alt = "string" THEN "VALUE"
                ELSE IF obj.alt = "vector" THEN "LIST" ELSE "TABLE"
        payload == IF obj.alt = "string" THEN obj.str
                   ELSE IF obj.alt = "vector" THEN obj.vec ELSE obj.map
        matching == IF op = "get_value" THEN "VALUE"
                    ELSE IF op = "get_list" THEN "LIST" ELSE "TABLE"
    IN  /\ op = "type" => res = kind
        /\ op \in {"get_value", "get_list", "get_table"} =>
               /\ res.has <=> kind = matching
               /\ res.has => res.val = payload
               /\ ~res.has => res = [has |-> FALSE] /\ res # [has |-> TRUE, val |-> <<>>]
        /\ Cardinality({a \in {"VALUE", "LIST", "TABLE"} :
                          (CASE a = "VALUE" -> get_value(obj)
                             [] a = "LIST" -> get_list(obj)
                             [] a = "TABLE" -> get_table(obj)).has}) = 1

C9_Witness ==
    /\ op = "get_list"
    /\ obj = table(<<>>)
    /\ ~res.has

(* C10: the accessor matching a factory returns what the factory was given: *)
(* get_value the text character for character, get_list the same elements   *)
(* in the same order, get_table the same key-to-value mapping when no key   *)
(* was given twice; the empty string, list and table included.              *)
C10_FactoryAccessor ==
    /\ (op = "get_value" /\ obj.alt = "string") =>
           /\ res.has
           /\ Len(res.val) = Len(arg)
           /\ \A i \in 1..Len(arg) : res.val[i] = arg[i]
    /\ (op = "get_list" /\ obj.alt = "vector") =>
           /\ res.has
           /\ Len(res.val) = Len(arg)
           /\ \A i \in 1..Len(arg) : res.val[i] = arg[i]
    /\ (op = "get_table" /\ obj.alt = "map" /\ ~HasDuplicateKey(arg)) =>
           /\ res.has
           /\ Len(res.val) = Len(arg)
           /\ {res.val[i] : i \in 1..Len(res.val)} = {arg[i] : i \in 1..Len(arg)}

C10_Witness ==
    /\ op = "get_table"
    /\ obj.alt = "map"
    /\ Len(arg) = 2
    /\ ~HasDuplicateKey(arg)
    /\ res.has
    /\ res.val[1] = arg[2]

----------------------------------------------------------------------------
(* Pretty encoding against compact encoding. *)

\* the string s with every space and newline deleted
StripWs(s) == SelectSeq(s, LAMBDA c : c \notin {Chr.space, Chr.newline})

\* the string s holds a space or a newline
HasWs(s) == \E i \in 1..Len(s) : s[i] \in {Chr.space, Chr.newline}

\* no scalar text and no key of the tree o holds whitespace
RECURSIVE NoWhitespace(_)
NoWhitespace(o) ==
    IF o.alt = "string" THEN ~HasWs(o.str)
    ELSE IF o.alt = "vector"
    THEN \A i \in 1..Len(o.vec) : NoWhitespace(o.vec[i])
    ELSE \A i \in 1..Len(o.map) :
             ~HasWs(o.map[i][1]) /\ NoWhitespace(o.map[i][2])

\* C11: for every tree whose scalar texts and keys hold no whitespace,
\* deleting every space and newline from what fmt_pretty() returns gives
\* exactly what fmt() returns for the same tree.
C11_PrettyStripsToCompact ==
    (op = "fmt_pretty" /\ NoWhitespace(obj)) => StripWs(res) = fmt(obj)

----------------------------------------------------------------------------
(* The lines of a pretty encoding. *)

\* the lines of the string s: what stands between its newlines
Lines(s) ==
    LET nl == {i \in 1..Len(s) : s[i] = Chr.newline}
        \* the position of the k-th newline of s
        at(k) == CHOOSE i \in nl : Cardinality({j \in nl : j < i}) = k - 1
    IN  [k \in 1..(Cardinality(nl) + 1) |->
            SubSeq(s, IF k = 1 THEN 1 ELSE at(k - 1) + 1,
                      IF k = Cardinality(nl) + 1 THEN Len(s) ELSE at(k) - 1)]

\* the number of spaces a line starts with
Indent(line) ==
    LET other == {i \in 1..Len(line) : line[i] # Chr.space}
    IN  IF other = {} THEN Len(line)
        ELSE (CHOOSE i \in other : \A j \in other : i <= j) - 1

\* the line without the spaces it starts with
Body(line) == SubSeq(line, Indent(line) + 1, Len(line))

StartsWith(s, prefix) ==
    Len(s) >= Len(prefix) /\ SubSeq(s, 1, Len(prefix)) = prefix

\* the number of newlines of the string s
NewlinesIn(s) == Cardinality({i \in 1..Len(s) : s[i] = Chr.newline})

\* the character an encoding of the node o starts with
Opening(o) ==
    IF o.alt = "string" THEN <<Chr.dquote>>
    ELSE IF o.alt = "vector" THEN <<Chr.lbracket>>
    ELSE <<Chr.lbrace>>

\* the node o is written on more than one line: a non-empty container, or
\* a scalar whose text holds a newline
SpansLines(o) ==
    IF o.alt = "string" THEN NewlinesIn(o.str) > 0
    ELSE Kids(o) # <<>>

\* the line L[j] exists, is indented by n spaces and starts with prefix
LineIs(L, j, n, prefix) ==
    /\ j \in 1..Len(L)
    /\ Indent(L[j]) = n
    /\ StartsWith(Body(L[j]), prefix)

\* Laid(o, L, i, n): the node o, whose encoding starts on line i of L, that
\* line being indented by n spaces, is laid out with every element of a
\* non-empty container starting on a line of its own indented by n + 2
\* spaces and the closing bracket alone on a line indented by n spaces.
\* The value is the number of the line the encoding of o ends on, 0 if the
\* layout is another one.  An entry of a table whose value spans lines has
\* the value start on the line after the key and ends with one more line.
RECURSIVE Laid(_, _, _, _)
RECURSIVE LaidElems(_, _, _, _, _)
RECURSIVE LaidEntries(_, _, _, _, _)
Laid(o, L, i, n) ==
    IF o.alt = "string" THEN i + NewlinesIn(o.str)
    ELSE IF Kids(o) = <<>> THEN i
    ELSE LET last == IF o.alt = "vector" THEN LaidElems(o.vec, 1, L, i, n)
                     ELSE LaidEntries(o.map, 1, L, i, n)
             close == IF o.alt = "vector" THEN <<Chr.rbracket>>
                      ELSE <<Chr.rbrace>>
         IN  IF last # 0 /\ LineIs(L, last + 1, n, close)
                /\ Body(L[last + 1]) = close
             THEN last + 1 ELSE 0

LaidElems(vec, k, L, cur, n) ==
    IF k > Len(vec) THEN cur
    ELSE IF ~LineIs(L, cur + 1, n + 2, Opening(vec[k])) THEN 0
    ELSE LET end == Laid(vec[k], L, cur + 1, n + 2)
         IN  IF end = 0 THEN 0 ELSE LaidElems(vec, k + 1, L, end, n)

LaidEntries(map, k, L, cur, n) ==
    IF k > Len(map) THEN cur
    ELSE IF ~LineIs(L, cur + 1, n + 2, <<Chr.lbrace>> \o Quoted(map[k][1]))
    THEN 0
    ELSE IF ~SpansLines(map[k][2]) THEN LaidEntries(map, k + 1, L, cur + 1, n)
    ELSE IF ~(cur + 2 \in 1..Len(L)
              /\ StartsWith(Body(L[cur + 2]), Opening(map[k][2]))) THEN 0
    ELSE LET end == Laid(map[k][2], L, cur + 2, Indent(L[cur + 2]))
         IN  IF end = 0 \/ end + 1 > Len(L) THEN 0
             ELSE LaidEntries(map, k + 1, L, end + 1, n)

\* C12: in what fmt_pretty() returns, every element of a non-empty list or
\* table starts on a line of its own indented exactly two spaces more than
\* the line holding the opening bracket of its container, and the closing
\* bracket of the container stands alone on a line indented as the line
\* holding its opening bracket; this at every nesting depth, for lists in
\* lists, lists in tables, tables in lists and tables in tables.
C12_PrettyIndentation ==
    op = "fmt_pretty" =>
        LET L == Lines(res)
        IN  Laid(obj, L, 1, 0) = Len(L)

\* fmt_pretty() was called on a table one of whose values is a table with
\* a scalar value
C12_Witness ==
    /\ op = "fmt_pretty"
    /\ obj.alt = "map"
    /\ \E i \in 1..Len(obj.map) :
           /\ obj.map[i][2].alt = "map"
           /\ \E j \in 1..Len(obj.map[i][2].map) :
                  obj.map[i][2].map[j][2].alt = "string"

----------------------------------------------------------------------------
(* Placement of the value of a pretty table entry. *)

\* the value v of a table entry is taken for a single-line one: a scalar
\* (any scalar if scalarsInline, else one whose text holds no newline), an
\* empty list or an empty table
TakenSingleLine(v, scalarsInline) ==
    IF v.alt = "string" THEN scalarsInline \/ NewlinesIn(v.str) = 0
    ELSE Kids(v) = <<>>

\* what a single-line value is written as
InlineText(v) ==
    IF v.alt = "string" THEN Quoted(v.str)
    ELSE IF v.alt = "vector" THEN <<Chr.lbracket, Chr.rbracket>>
    ELSE <<Chr.lbrace, Chr.rbrace>>

\* what an entry with the key k is written as up to and including its '='
EntryHead(k) == <<Chr.lbrace>> \o Quoted(k) \o <<Chr.rbrace, Chr.equals>>

\* Placed(o, L, i, scalarsInline): in the encoding of the node o, starting
\* on line i of L, every table entry with a single-line value has the value
\* on the line of the key directly after '=', and every other entry has
\* nothing after '=' on the line of the key and its value starting on the
\* next line, indented deeper than the key.  The value is the number of the
\* line the encoding of o ends on, 0 if a value is placed otherwise.
RECURSIVE Placed(_, _, _, _)
RECURSIVE PlacedElems(_, _, _, _, _)
RECURSIVE PlacedEntries(_, _, _, _, _)
Placed(o, L, i, scalarsInline) ==
    IF o.alt = "string" THEN i + NewlinesIn(o.str)
    ELSE IF Kids(o) = <<>> THEN i
    ELSE LET last == IF o.alt = "vector"
                     THEN PlacedElems(o.vec, 1, L, i, scalarsInline)
                     ELSE PlacedEntries(o.map, 1, L, i, scalarsInline)
         IN  IF last # 0 /\ last + 1 <= Len(L) THEN last + 1 ELSE 0

PlacedElems(vec, k, L, cur, scalarsInline) ==
    IF k > Len(vec) THEN cur
    ELSE IF cur + 1 > Len(L) THEN 0
    ELSE LET end == Placed(vec[k], L, cur + 1, scalarsInline)
         IN  IF end = 0 THEN 0
             ELSE PlacedElems(vec, k + 1, L, end, scalarsInline)

PlacedEntries(map, k, L, cur, scalarsInline) ==
    IF k > Len(map) THEN cur
    ELSE IF cur + 1 > Len(L) THEN 0
    ELSE LET key == map[k][1]
             val == map[k][2]
             line == Body(L[cur + 1])
         IN  IF TakenSingleLine(val, scalarsInline)
             THEN IF StartsWith(line,
                        EntryHead(key) \o Head(Lines(InlineText(val))))
                  THEN PlacedEntries(map, k + 1, L,
                           cur + 1 + NewlinesIn(InlineText(val)),
                           scalarsInline)
                  ELSE 0
             ELSE IF /\ line = EntryHead(key)
                     /\ cur + 2 <= Len(L)
                     /\ Indent(L[cur + 2]) > Indent(L[cur + 1])
                     /\ StartsWith(Body(L[cur + 2]), Opening(val))
                  THEN LET end == Placed(val, L, cur + 2, scalarsInline)
                       IN  IF end = 0 \/ end + 1 > Len(L) THEN 0
                           ELSE PlacedEntries(map, k + 1, L, end + 1,
                                              scalarsInline)
                  ELSE 0

----------------------------------------------------------------------------
(* Immutability of a tree. *)

\* C15: an Object is never modified after construction: no call of type(),
\* get_value(), get_list(), get_table(), fmt() or fmt_pretty() and no write
\* of the client to a payload copy an accessor returned, or to the container
\* it handed to a copying factory, changes the tree or any descendant; only
\* building another Object with a factory gives obj another value.
C15_Immutable == [][op' \notin Factories => obj' = obj]_vars

\* the client cleared the copy of the children it got from a list that
\* still has its children
C15_Witness ==
    /\ op = "mutate"
    /\ res = Some(<<>>)
    /\ obj.alt = "vector"
    /\ Len(obj.vec) = MaxItems

----------------------------------------------------------------------------
(* One call of fmt() or fmt_pretty(), step by step: the recursion of        *)
(* fmt_impl with its call stack.  obj is the tree, op the function called   *)
(* and res what it returns.  walk.stack holds one frame per fmt_impl call   *)
(* that is inside its loop: the node, its indent, the index i of the child  *)
(* formatted next and the local string out.  walk.callee and walk.indent    *)
(* are the node and the indent of the call being entered, walk.ret the      *)
(* string the call that just returned gave back, walk.visits the number of  *)
(* fmt_impl calls entered so far.                                           *)

\* the trees fmt() and fmt_pretty() are called on: scalars and empty
\* containers, containers of those, and containers holding such a container
WalkLeaves == {value(Str_empty), value(Str_anb), list(<<>>), table(<<>>)}

WalkShallow ==
    {list(vec) : vec \in SeqsUpTo(WalkLeaves, MaxItems)}
        \cup {table_il(il) :
                  il \in SeqsUpTo(Keys \X WalkLeaves, Cardinality(Keys))}

WalkDeep ==
    {list(<<t, l>>) : t \in WalkShallow, l \in WalkLeaves}
        \cup {table_il(<<<<Str_key1, l>>, <<Str_key2, t>>>>) :
                  t \in WalkShallow, l \in WalkLeaves}

WalkTrees == WalkLeaves \cup WalkShallow \cup WalkDeep

\* std::string out = "[" / out += "[\n" / std::string out = "{" / out += "{\n"
LoopOpen(o, pretty) ==
    (IF o.alt = "vector" THEN <<Chr.lbracket>> ELSE <<Chr.lbrace>>)
        \o (IF pretty THEN <<Chr.newline>> ELSE <<>>)

\* out += "]" / out += "\n" + indent_str(indent) + "]", and '}' alike
LoopClose(o, indent, pretty) ==
    (IF pretty THEN <<Chr.newline>> \o indent_str(indent) ELSE <<>>)
        \o (IF o.alt = "vector" THEN <<Chr.rbracket>> ELSE <<Chr.rbrace>>)

\* the indent argument of the recursive call on a child
ChildIndent(o, indent, pretty) ==
    IF ~pretty THEN 0
    ELSE IF o.alt = "vector" THEN indent + 1
    ELSE indent + 2

\* the loop condition failing with one child still to format
WalkLoopDone_OffByOne(i, n) == i >= n

\* the loop condition is false: i < arg.size() fails, it == arg.end()
WalkLoopDone(i, n) == i > n

\* the loop body of the frame f, given what the call on child f.i returned
LoopStep(f, returned, pretty) ==
    LET n == Len(Kids(f.node))
    IN  IF f.node.alt = "vector"
        THEN IF ~pretty THEN ListCompactStep(f.out, returned)
             ELSE ListPrettyStep(f.out, returned, f.indent, f.i = n)
        ELSE IF ~pretty
             THEN TableCompactStep(f.out, f.node.map[f.i][1], returned)
             ELSE TablePrettyStep(f.out, f.node.map[f.i][1], returned,
                                  f.indent, f.i = n)

IsPretty == op = "fmt_pretty"
Top == walk.stack[Len(walk.stack)]
Pop == SubSeq(walk.stack, 1, Len(walk.stack) - 1)

\* no call of the client in progress
ClientIdle ==
    /\ pair = NotStarted
    /\ app = NotStarted
    /\ tid = NotStarted

WalkInit ==
    /\ obj \in WalkTrees
    /\ arg = <<>>
    /\ op \in {"fmt", "fmt_pretty"}
    /\ res = <<>>
    /\ walk = [pc |-> "call", callee |-> obj, indent |-> 0, stack |-> <<>>,
               ret |-> <<>>, visits |-> 0]
    /\ ClientIdle

\* fmt_impl is entered on a scalar or an empty container and returns at once
WalkEnterLeaf ==
    /\ walk.pc = "call"
    /\ Kids(walk.callee) = <<>>
    /\ walk' = [walk EXCEPT !.pc = "return",
                            !.ret = fmt_impl(walk.callee, walk.indent, IsPretty),
                            !.visits = @ + 1]
    /\ UNCHANGED <<obj, arg, op, res, pair, app, tid>>

\* fmt_impl is entered on a non-empty container and starts its loop
WalkEnterLoop ==
    /\ walk.pc = "call"
    /\ Kids(walk.callee) # <<>>
    /\ walk' = [walk EXCEPT !.pc = "loop",
                            !.stack = Append(@, [node |-> walk.callee,
                                                 indent |-> walk.indent,
                                                 i |-> 1,
                                                 out |-> LoopOpen(walk.callee,
                                                                  IsPretty)]),
                            !.visits = @ + 1]
    /\ UNCHANGED <<obj, arg, op, res, pair, app, tid>>

\* the loop calls fmt_impl on the child i
WalkDescend ==
    /\ walk.pc = "loop"
    /\ ~WalkLoopDone(Top.i, Len(Kids(Top.node)))
    /\ walk' = [walk EXCEPT !.pc = "call",
                            !.callee = Kids(Top.node)[Top.i],
                            !.indent = ChildIndent(Top.node, Top.indent,
                                                   IsPretty)]
    /\ UNCHANGED <<obj, arg, op, res, pair, app, tid>>

\* the call on the child i has returned: the loop body appends and ++i
WalkResume ==
    /\ walk.pc = "return"
    /\ walk.stack # <<>>
    /\ walk' = [walk EXCEPT !.pc = "loop",
                            !.stack = Append(Pop,
                                [Top EXCEPT !.out = LoopStep(Top, walk.ret,
                                                             IsPretty),
                                            !.i = @ + 1])]
    /\ UNCHANGED <<obj, arg, op, res, pair, app, tid>>

\* the loop is over: the closing bracket is appended and out returned
WalkLeave ==
    /\ walk.pc = "loop"
    /\ WalkLoopDone(Top.i, Len(Kids(Top.node)))
    /\ walk' = [walk EXCEPT !.pc = "return",
                            !.ret = Top.out \o LoopClose(Top.node, Top.indent,
                                                         IsPretty),
                            !.stack = Pop]
    /\ UNCHANGED <<obj, arg, op, res, pair, app, tid>>

\* the outermost fmt_impl has returned to fmt() / fmt_pretty()
WalkFinish ==
    /\ walk.pc = "return"
    /\ walk.stack = <<>>
    /\ walk' = [walk EXCEPT !.pc = "done"]
    /\ res' = walk.ret
    /\ UNCHANGED <<obj, arg, op, pair, app, tid>>

WalkNext ==
    \/ WalkEnterLeaf
    \/ WalkEnterLoop
    \/ WalkDescend
    \/ WalkResume
    \/ WalkLeave
    \/ WalkFinish

\* the thread executing the call keeps executing it
SpecWalk == WalkInit /\ [][WalkNext]_vars /\ WF_vars(WalkNext)

\* every call in progress formats a child of the node of the frame below
\* it, a strictly smaller subtree
WalkDescends ==
    (walk.pc = "call" /\ walk.stack # <<>>) =>
        /\ walk.callee = Kids(Top.node)[Top.i]
        /\ NodeCount(walk.callee) < NodeCount(Top.node)

\* the call has returned, having entered fmt_impl once per node, with the
\* string fmt_impl gives for the tree
WalkReturned ==
    /\ walk.pc = "done"
    /\ walk.visits = NodeCount(obj)
    /\ res = fmt_impl(obj, 0, IsPretty)

\* C14: fmt() and fmt_pretty() are total: on any finite tree the call
\* terminates and returns a string; the recursion enters fmt_impl once per
\* node and always descends into a strictly smaller subtree.
C14_Terminates == []WalkDescends /\ <>WalkReturned

\* fmt_pretty() has returned from a table holding a table with two entries
C14_Witness ==
    /\ walk.pc = "done"
    /\ op = "fmt_pretty"
    /\ obj.alt = "map"
    /\ \E i \in 1..Len(obj.map) :
           obj.map[i][2].alt = "map" /\ Len(obj.map[i][2].map) = Cardinality(Keys)

----------------------------------------------------------------------------
(* Two trees and their compact encodings: a client builds the Objects       *)
(* pair.a and pair.b and calls fmt() on each; pair.sa and pair.sb are the   *)
(* strings returned.                                                        *)

\* texts and keys made of the characters of the format
Str_qq == <<Chr.dquote, Chr.dquote>>
Str_eq == <<Chr.equals>>
Str_close == <<Chr.rbracket, Chr.rbrace>>
Str_open == <<Chr.lbracket, Chr.lbrace>>

PairTexts == {Str_empty, Str_qq, Str_eq, Str_close, Str_open}
PairKeys == {Str_eq, Str_qq}

PairScalars == {value(s) : s \in PairTexts}

\* the lists and tables of scalars, with as many children as there are keys
PairFlat ==
    {list(vec) : vec \in SeqsUpTo(PairScalars, Cardinality(PairKeys))}
        \cup {table_il(il) :
                  il \in SeqsUpTo(PairKeys \X PairScalars,
                                  Cardinality(PairKeys))}

\* a list or a table holding one of those
PairNested ==
    {list(<<t>>) : t \in PairFlat}
        \cup {table_il(<<<<Str_eq, t>>>>) : t \in PairFlat}

PairTrees == PairScalars \cup PairFlat \cup PairNested

PairInit ==
    /\ pair \in [pc : {"built"}, a : PairTrees, b : PairTrees,
                 sa : {<<>>}, sb : {<<>>}]
    /\ pair.a # pair.b
    /\ obj = DefaultObject
    /\ arg = <<>>
    /\ op = "ctor"
    /\ res = nullopt
    /\ walk = NotStarted
    /\ app = NotStarted
    /\ tid = NotStarted

\* std::string sa = a.fmt();
PairFmtA ==
    /\ pair.pc = "built"
    /\ pair' = [pair EXCEPT !.pc = "a", !.sa = fmt(pair.a)]
    /\ UNCHANGED <<obj, arg, op, res, walk, app, tid>>

\* std::string sb = b.fmt();
PairFmtB ==
    /\ pair.pc = "a"
    /\ pair' = [pair EXCEPT !.pc = "both", !.sb = fmt(pair.b)]
    /\ UNCHANGED <<obj, arg, op, res, walk, app, tid>>

PairNext == PairFmtA \/ PairFmtB

SpecPair == PairInit /\ [][PairNext]_vars

\* no scalar text and no key of the tree o holds a double quote
RECURSIVE QuoteFree(_)
QuoteFree(o) ==
    IF o.alt = "string" THEN \A i \in 1..Len(o.str) : o.str[i] # Chr.dquote
    ELSE IF o.alt = "vector"
    THEN \A i \in 1..Len(o.vec) : QuoteFree(o.vec[i])
    ELSE \A i \in 1..Len(o.map) :
             /\ \A j \in 1..Len(o.map[i][1]) : o.map[i][1][j] # Chr.dquote
             /\ QuoteFree(o.map[i][2])

----------------------------------------------------------------------------
(* apps/triangle/main.cpp: main() runs TriangleApplication::run(), i.e.     *)
(* init(), main_loop(), cleanup().  app holds the position of the program   *)
(* (pc), the members of the application that are handles, the build flag    *)
(* ENABLE_VALIDATION_LAYERS and the exit code of main; the calls into GLFW, *)
(* Vulkan and the file system succeed or fail as the environment decides.   *)
(* app.failed names the function in which a call failed, app.done lists    *)
(* the functions that returned normally, app.destroyed_null the members     *)
(* handed to a destroy call while still VK_NULL_HANDLE.                     *)

\* most devices vkEnumeratePhysicalDevices reports
MaxDevices == 2
\* most iterations of the main loop
MaxPolls == 2

\* the functions init() runs, in the order of init() and init_vulcan()
InitOrder ==
    <<"init_glfw", "init_window", "create_instance",
      "check_extension_support", "setup_debug_messenger", "create_surface",
      "pick_physical_device", "create_logical_device",
      "create_graphics_pipleline">>

\* the functions run() runs
RunOrder == InitOrder \o <<"main_loop", "cleanup">>

\* what runs after the function step has returned
After(step) ==
    LET i == CHOOSE j \in 1..Len(RunOrder) : RunOrder[j] = step
    IN  IF i < Len(RunOrder) THEN RunOrder[i + 1] ELSE "run_returned"

\* what cleanup() destroys, in its order
CleanupOrder ==
    <<"image_views", "swapchain", "surface", "logical_device",
      "debug_messenger", "instance", "window", "glfw">>

\* the function a.pc returns normally
Return(a) == [a EXCEPT !.done = Append(@, a.pc), !.pc = After(a.pc)]

\* a call of the function a.pc failed and its result is ignored
Throw_Ignored(a) ==
    [a EXCEPT !.failed = a.pc, !.done = Append(@, a.pc), !.pc = After(a.pc)]

\* a call of the function a.pc failed: throw std::runtime_error, which
\* leaves run() and is caught in main()
Throw(a) == [a EXCEPT !.failed = a.pc, !.pc = "catch"]

\* TriangleApplication application; with the default member initializers
AppInit ==
    /\ app \in [pc : {"init_glfw"}, validation : BOOLEAN, glfw : {"off"},
                window : {"null"}, instance : {"null"},
                debug_messenger : {"null"}, surface : {"null"},
                physical_device : {0}, logical_device : {"null"},
                swapchain : {"null"}, image_views : {<<>>}, polls : {0},
                k : {1}, done : {<<>>}, failed : {"none"}, exit : {"none"},
                destroyed_null : {{}}]
    /\ obj = DefaultObject
    /\ arg = <<>>
    /\ op = "ctor"
    /\ res = nullopt
    /\ walk = NotStarted
    /\ pair = NotStarted
    /\ tid = NotStarted

AppStep(a) ==
    /\ app' = a
    /\ UNCHANGED <<obj, arg, op, res, walk, pair, tid>>

\* init_glfw(): if (!glfwInit()) throw
InitGlfw ==
    /\ app.pc = "init_glfw"
    /\ \E ok \in BOOLEAN :
           AppStep(IF ok THEN Return([app EXCEPT !.glfw = "on"])
                   ELSE Throw(app))

\* init_window(): glfwCreateWindow; on nullptr glfwTerminate() and throw
InitWindow ==
    /\ app.pc = "init_window"
    /\ \E ok \in BOOLEAN :
           AppStep(IF ok THEN Return([app EXCEPT !.window = "valid"])
                   ELSE Throw([app EXCEPT !.glfw = "terminated"]))

\* create_instance(): throws if the validation layers are requested and
\* not available, or if vkCreateInstance fails
CreateInstance ==
    /\ app.pc = "create_instance"
    /\ \E layers, ok \in BOOLEAN :
           AppStep(IF app.validation /\ ~layers THEN Throw(app)
                   ELSE IF ok THEN Return([app EXCEPT !.instance = "valid"])
                   ELSE Throw(app))

\* check_extension_support(): prints the available extensions
CheckExtensionSupport ==
    /\ app.pc = "check_extension_support"
    /\ AppStep(Return(app))

\* setup_debug_messenger(): returns at once without validation layers,
\* else throws if the messenger cannot be created
SetupDebugMessenger ==
    /\ app.pc = "setup_debug_messenger"
    /\ \E ok \in BOOLEAN :
           AppStep(IF ~app.validation THEN Return(app)
                   ELSE IF ok
                   THEN Return([app EXCEPT !.debug_messenger = "valid"])
                   ELSE Throw(app))

\* create_surface(): throws if glfwCreateWindowSurface fails
CreateSurface ==
    /\ app.pc = "create_surface"
    /\ \E ok \in BOOLEAN :
           AppStep(IF ok THEN Return([app EXCEPT !.surface = "valid"])
                   ELSE Throw(app))

\* pick_physical_device(): rated[i] says that rate_physical_device gave
\* device i a score above 0; throws if there is no device or none is rated
\* above 0, else takes the device with the highest score
PickPhysicalDevice ==
    /\ app.pc = "pick_physical_device"
    /\ \E rated \in SeqsUpTo(BOOLEAN, MaxDevices) :
           IF \A i \in 1..Len(rated) : ~rated[i]
           THEN AppStep(Throw(app))
           ELSE \E i \in 1..Len(rated) :
                    /\ rated[i]
                    /\ AppStep(Return([app EXCEPT !.physical_device = i]))

\* create_logical_device(): throws if vkCreateDevice fails
CreateLogicalDevice ==
    /\ app.pc = "create_logical_device"
    /\ \E ok \in BOOLEAN :
           AppStep(IF ok THEN Return([app EXCEPT !.logical_device = "valid"])
                   ELSE Throw(app))

\* create_graphics_pipleline(): read_file("shaders/vert.spv") and
\* read_file("shaders/frag.spv"), each throwing if the file does not open
CreateGraphicsPipeline ==
    /\ app.pc = "create_graphics_pipleline"
    /\ \E vert, frag \in BOOLEAN :
           AppStep(IF vert /\ frag THEN Return(app) ELSE Throw(app))

\* main_loop(): the window is not to close yet: glfwPollEvents()
PollEvents ==
    /\ app.pc = "main_loop"
    /\ app.polls < MaxPolls
    /\ AppStep([app EXCEPT !.polls = @ + 1])

\* main_loop(): glfwWindowShouldClose(m_window) holds, the loop ends
WindowShouldClose ==
    /\ app.pc = "main_loop"
    /\ AppStep(Return(app))

\* the member cleanup() hands to its k-th destroy call
Destroyed(a, member) ==
    IF member = "image_views" THEN a
    ELSE IF member = "debug_messenger" /\ ~a.validation THEN a
    ELSE IF member = "glfw" THEN [a EXCEPT !.glfw = "terminated"]
    ELSE [a EXCEPT ![member] = "destroyed",
                   !.destroyed_null =
                       IF a[member] = "null" THEN @ \cup {member} ELSE @]

\* cleanup(): one destroy call after the other
Cleanup ==
    /\ app.pc = "cleanup"
    /\ app.k <= Len(CleanupOrder)
    /\ AppStep([Destroyed(app, CleanupOrder[app.k]) EXCEPT !.k = @ + 1])

\* cleanup() returns, and with it run()
CleanupReturns ==
    /\ app.pc = "cleanup"
    /\ app.k > Len(CleanupOrder)
    /\ AppStep(Return(app))

\* main(): run() has returned: return EXIT_SUCCESS
MainReturn ==
    /\ app.pc = "run_returned"
    /\ AppStep([app EXCEPT !.pc = "exited", !.exit = "EXIT_SUCCESS"])

\* main(): catch (const std::exception& e): return EXIT_FAILURE
MainCatch ==
    /\ app.pc = "catch"
    /\ AppStep([app EXCEPT !.pc = "exited", !.exit = "EXIT_FAILURE"])

AppNext ==
    \/ InitGlfw
    \/ InitWindow
    \/ CreateInstance
    \/ CheckExtensionSupport
    \/ SetupDebugMessenger
    \/ CreateSurface
    \/ PickPhysicalDevice
    \/ CreateLogicalDevice
    \/ CreateGraphicsPipeline
    \/ PollEvents
    \/ WindowShouldClose
    \/ Cleanup
    \/ CleanupReturns
    \/ MainReturn
    \/ MainCatch

SpecApp == AppInit /\ [][AppNext]_vars

\* the functions of order before the function step
Before(order, step) ==
    SubSeq(order, 1,
           (CHOOSE j \in 1..Len(order) : order[j] = step) - 1)

\* C17: if a call fails in any initialization step (GLFW initialization,
\* window creation, instance creation, debug messenger setup, surface
\* creation, physical device selection, logical device creation, shader
\* file read), the exception leaves run(): exactly the steps before the
\* failing one have run, no later step and no main loop runs afterwards,
\* and main returns EXIT_FAILURE; main returns EXIT_SUCCESS only after
\* init, main_loop and cleanup have all completed in this order.
C17_FailurePropagates ==
    /\ app.failed # "none" =>
           /\ app.pc \in {"catch", "exited"}
           /\ app.done = Before(RunOrder, app.failed)
           /\ app.polls = 0
           /\ app.exit # "EXIT_SUCCESS"
           /\ app.pc = "exited" => app.exit = "EXIT_FAILURE"
    /\ app.exit = "EXIT_SUCCESS" =>
           /\ app.failed = "none"
           /\ app.done = RunOrder

\* main has returned EXIT_FAILURE after the read of a shader file failed
C17_Witness ==
    /\ app.pc = "exited"
    /\ app.exit = "EXIT_FAILURE"
    /\ app.failed = "create_graphics_pipleline"
    /\ app.logical_device = "valid"

\* C18: in every run that reaches the main loop the window, the instance,
\* the surface, the logical device and the swapchain have been created
\* before the loop is entered, and cleanup() hands no member to a destroy
\* call that was not created earlier in the run.
C18_CreatedBeforeLoop ==
    /\ app.pc \in {"main_loop", "cleanup", "run_returned"} =>
           \A member \in {"window", "instance", "surface", "logical_device",
                          "swapchain"} :
               app[member] \in {"valid", "destroyed"}
    /\ app.destroyed_null = {}

----------------------------------------------------------------------------
(* include/typeindex.hpp: threads calling type_id_uint8<T>() for some       *)
(* types T.  tid.counter is the static std::atomic<uint8_t> of              *)
(* next_type_index<uint8_t>, tid.guard[T] the state of the initialization   *)
(* of the static `index` of type_id_uint8<T>, tid.index[T] its value,       *)
(* tid.th[t] what thread t is doing (pc, the type T of its call, the value  *)
(* its fetch_add returned) and tid.returned[T] the ids the calls for T      *)
(* have returned so far.                                                    *)

\* threads calling type_id_uint8
NumThreads == 2
\* types type_id_uint8 is instantiated for
NumTypes == 2
\* values of a uint8_t
Uint8Size == 256

Threads == 1..NumThreads
Types == 1..NumTypes

ThreadIdle == [pc |-> "idle", T |-> 0, fetched |-> 0]

\* no thread has called yet: counter{0}, no static `index` initialized
TidInit ==
    /\ tid = [counter |-> 0,
              guard |-> [T \in Types |-> "uninit"],
              index |-> [T \in Types |-> 0],
              th |-> [t \in Threads |-> ThreadIdle],
              returned |-> [T \in Types |-> {}]]
    /\ obj = DefaultObject
    /\ arg = <<>>
    /\ op = "ctor"
    /\ res = nullopt
    /\ walk = NotStarted
    /\ pair = NotStarted
    /\ app = NotStarted

TidStep(next) ==
    /\ tid' = next
    /\ UNCHANGED <<obj, arg, op, res, walk, pair, app>>

\* a static local is initialized by whichever thread finds it uninitialized
\* even while another thread is initializing it
GuardFree_Unguarded(g) == g # "done"

\* the initialization of a static local is entered by the one thread that
\* finds it uninitialized; a thread finding it being initialized waits
GuardFree(g) == g = "uninit"

\* thread t calls type_id_uint8<T>()
TidCall(t, T) ==
    /\ tid.th[t].pc = "idle"
    /\ TidStep([tid EXCEPT !.th[t] = [pc |-> "guard", T |-> T, fetched |-> 0]])

\* thread t finds `index` uninitialized and starts its initialization
TidEnterInit(t) ==
    /\ tid.th[t].pc = "guard"
    /\ GuardFree(tid.guard[tid.th[t].T])
    /\ TidStep([tid EXCEPT !.guard[tid.th[t].T] = "running",
                           !.th[t].pc = "fetch"])

\* thread t finds `index` initialized
TidSkipInit(t) ==
    /\ tid.th[t].pc = "guard"
    /\ tid.guard[tid.th[t].T] = "done"
    /\ TidStep([tid EXCEPT !.th[t].pc = "return"])

\* next_type_index<uint8_t>(): counter.fetch_add(1), one atomic step
TidFetchAdd(t) ==
    /\ tid.th[t].pc = "fetch"
    /\ TidStep([tid EXCEPT !.counter = (@ + 1) % Uint8Size,
                           !.th[t].fetched = tid.counter,
                           !.th[t].pc = "store"])

\* the initialization of `index` completes with the value fetched
TidStore(t) ==
    /\ tid.th[t].pc = "store"
    /\ TidStep([tid EXCEPT !.index[tid.th[t].T] = tid.th[t].fetched,
                           !.guard[tid.th[t].T] = "done",
                           !.th[t].pc = "return"])

\* return index;
TidReturn(t) ==
    /\ tid.th[t].pc = "return"
    /\ TidStep([tid EXCEPT !.returned[tid.th[t].T] =
                               @ \cup {tid.index[tid.th[t].T]},
                           !.th[t] = ThreadIdle])

TidNext ==
    \/ \E t \in Threads, T \in Types : TidCall(t, T)
    \/ \E t \in Threads : TidEnterInit(t)
    \/ \E t \in Threads : TidSkipInit(t)
    \/ \E t \in Threads : TidFetchAdd(t)
    \/ \E t \in Threads : TidStore(t)
    \/ \E t \in Threads : TidReturn(t)

SpecTid == TidInit /\ [][TidNext]_vars

\* the types that have taken an id from the counter, and the id of each
TidRegistered ==
    {T \in Types :
        \/ tid.guard[T] = "done"
        \/ \E t \in Threads : tid.th[t].pc = "store" /\ tid.th[t].T = T}

TidIdOf(T) ==
    IF tid.guard[T] = "done" THEN tid.index[T]
    ELSE tid.th[CHOOSE t \in Threads :
                    tid.th[t].pc = "store" /\ tid.th[t].T = T].fetched

\* C19: with at most 256 types, under every interleaving of threads making
\* first calls concurrently, all calls of type_id_uint8<T>() for one type
\* return the same id, calls for two different types never return the same
\* id, and the types that have taken an id (n of them) have exactly the ids
\* 0..n-1, each call returning the id its type has taken.
C19_StableInjection ==
    /\ \A T \in Types : Cardinality(tid.returned[T]) <= 1
    /\ \A T, U \in Types :
           T # U => tid.returned[T] \cap tid.returned[U] = {}
    /\ {TidIdOf(T) : T \in TidRegistered}
           = 0..(Cardinality(TidRegistered) - 1)
    /\ \A T, U \in TidRegistered : T # U => TidIdOf(T) # TidIdOf(U)
    /\ \A T \in Types : tid.returned[T] \subseteq
           (IF T \in TidRegistered THEN {TidIdOf(T)} ELSE {})

\* calls for every type have returned, the type numbered last having taken
\* the first id, and a thread is inside one more call
C19_Witness ==
    /\ \A T \in Types : tid.returned[T] # {}
    /\ \E t \in Threads : tid.th[t].pc = "guard"
    /\ tid.index[NumTypes] = 0
    /\ tid.counter = NumTypes

====
